---------------------------- MODULE Spec2Model ----------------------------
(***************************************************************************)
(* A model of src/src/julian.rs: the conversions between CalendarDate and  *)
(* JulianDay and the queries built on them (get_calendar, leap_year,       *)
(* day_of_the_week, day_of_the_year, difference, days_between).            *)
(*                                                                         *)
(* rust_decimal::Decimal is an exact base-10 number.  A Decimal that the   *)
(* program holds is modelled by the integer count of its hundredths: 4.81  *)
(* is 481, 1524.5 is 152450.  The constants with more than two decimals    *)
(* (30.6001) only occur under a floor(), which is computed on the exact    *)
(* rational (see floor_mul and floor_quot).                                *)
(***************************************************************************)
EXTENDS Integers, Sequences, FiniteSets, TLC

VARIABLES
    pc,     \* what the caller has done last: "new" after construction
    cd,     \* the CalendarDate the caller holds (self / lhs), or NoDate
    rhs,    \* the second CalendarDate of difference / days_between, or NoDate
    jd,     \* the JulianDay the caller holds, or NoJulianDay
    ret     \* what the last call returned (or that it panicked)

vars == <<pc, cd, rhs, jd, ret>>

NoDate == [none |-> "CalendarDate"]
NoJulianDay == [none |-> "JulianDay"]
NoReturn == [none |-> "return"]

-----------------------------------------------------------------------------
(* Decimal arithmetic on hundredths.                                       *)

\* Decimal::from(n) of an integer n
Dec(n) == n * 100

\* Decimal::floor: the largest whole number <= x
floor(x) == (x \div 100) * 100

\* Decimal::abs
abs(x) == IF x < 0 THEN -x ELSE x

\* Decimal::trunc: the whole part of x, toward zero
trunc(x) == IF x >= 0 THEN floor(x) ELSE -floor(-x)

\* Decimal::round: to the nearest whole number, a midpoint going to the even
\* neighbour (rust_decimal rounds half to even)
round(x) ==
    LET f == floor(x)
        r == x - f
    IN  IF r < 50 THEN f
        ELSE IF r > 50 THEN f + 100
        ELSE IF (f \div 100) % 2 = 0 THEN f ELSE f + 100

\* The % of Rust integers and of Decimal: the remainder takes the sign of
\* the dividend (y > 0)
rem(x, y) == IF x >= 0 THEN x % y ELSE -((-x) % y)

\* a * b of two Decimals, exact in Decimal (one factor is a whole number
\* wherever the program multiplies)
mul(a, b) == (a * b) \div 100

\* (dec!(k/scale) * w).floor() for a whole number w: the product is exact in
\* Decimal, so the floor is the floor of the rational k*w/scale
floor_mul(k, scale, w) == Dec((k * w) \div scale)

\* (num/den).floor() for the Decimal quotient of two numbers given by the
\* integers num and den in one common unit, den > 0.  The Decimal quotient is
\* rounded at the 28th significant digit, far below the distance 1/den of an
\* inexact quotient from the next whole number, so the floor is exact
floor_quot(num, den) == Dec(num \div den)

-----------------------------------------------------------------------------
(* CalendarDate: y (i32), m (u8), d (Decimal, here in hundredths of a day) *)

CalendarDate_new(y, m, d) == [y |-> y, m |-> m, d |-> d]

\* JulianDay::new (x100: see JulianDay_wide)
JulianDay_new(day) == [day |-> day, x100 |-> 0]

\* a slip in get_calendar: the day compared with <= 15
Mut_get_calendar(self) ==
    LET year_is_julian == self.y < 1582
        month_is_julian == self.y = 1582 /\ self.m < 10
        day_is_julian == self.y = 1582 /\ self.m = 10 /\ self.d <= 1500
    IN  IF year_is_julian \/ month_is_julian \/ day_is_julian
        THEN "Julian"
        ELSE "Gregorian"

\* CalendarDate::get_calendar
get_calendar(self) ==
    LET year_is_julian == self.y < 1582
        month_is_julian == self.y = 1582 /\ self.m < 10
        day_is_julian == self.y = 1582 /\ self.m = 10 /\ self.d < 1500
    IN  IF year_is_julian \/ month_is_julian \/ day_is_julian
        THEN "Julian"
        ELSE "Gregorian"

\* a slip in JulianDay_from: January and February moved to months 13 and 14
\* without moving them to the year before
Mut_JulianDay_from(date) ==
    LET shift == date.m = 1 \/ date.m = 2
        y == date.y
        m == IF shift THEN date.m + 12 ELSE date.m
        d == date.d
        b == IF get_calendar(date) = "Gregorian"
             THEN LET a == floor_quot(Dec(y), Dec(100))
                  IN  Dec(2) - a + floor_quot(a, Dec(4))
             ELSE Dec(0)
        j == floor_mul(36525, 100, y + 4716) + floor_mul(306001, 10000, m + 1)
             + d + b - 152450
    IN  JulianDay_new(j)

\* impl From<&CalendarDate> for JulianDay
JulianDay_from(date) ==
    LET shift == date.m = 1 \/ date.m = 2
        y == IF shift THEN date.y - 1 ELSE date.y
        m == IF shift THEN date.m + 12 ELSE date.m
        d == date.d
        b == IF get_calendar(date) = "Gregorian"
             THEN LET a == floor_quot(Dec(y), Dec(100))
                  IN  Dec(2) - a + floor_quot(a, Dec(4))
             ELSE Dec(0)
        j == floor_mul(36525, 100, y + 4716) + floor_mul(306001, 10000, m + 1)
             + d + b - 152450
    IN  JulianDay_new(j)

\* CalendarDate::leap_year
leap_year(self) ==
    IF get_calendar(self) = "Gregorian"
    THEN rem(self.y, 4) = 0
    ELSE (rem(self.y, 4) = 0)
         /\ ((rem(self.y, 100) # 0) \/ (rem(self.y, 400) = 0))

\* CalendarDate::difference
difference(lhs, r) ==
    LET lhs_jd == JulianDay_from(lhs)
        rhs_jd == JulianDay_from(r)
    IN  lhs_jd.day - rhs_jd.day

\* a slip in days_between: the abs() left out
Mut_days_between(lhs, r) == difference(lhs, r)

\* CalendarDate::days_between
days_between(lhs, r) == abs(difference(lhs, r))

\* CalendarDate::day_of_the_year.  n.to_i32() truncates toward zero
day_of_the_year(self) ==
    LET k == Dec(IF leap_year(self) THEN 1 ELSE 2)
        m_d == Dec(self.m)
        d_d == self.d
        n == floor_quot(mul(Dec(275), m_d), Dec(9))
             - mul(k, floor_quot(m_d + Dec(9), Dec(12)))
             + d_d - Dec(30)
    IN  trunc(n) \div 100

-----------------------------------------------------------------------------
(* Wide Decimals.  A JulianDay is any Decimal (96-bit mantissa), and the   *)
(* year that try_from computes from it need not fit an i32.  The values of *)
(* try_from are therefore kept as Big numbers: a non-negative count of     *)
(* hundredths as the sequence of its base-100 digits, least significant    *)
(* first, without leading zero digits (so <<>> is 0, and digit 1 is the    *)
(* fractional part).                                                       *)

RECURSIVE ToBig(_)
ToBig(n) == IF n = 0 THEN <<>> ELSE <<n % 100>> \o ToBig(n \div 100)

RECURSIVE FromBig(_)
FromBig(a) == IF a = <<>> THEN 0 ELSE Head(a) + 100 * FromBig(Tail(a))

RECURSIVE BigNorm(_)
BigNorm(a) ==
    IF a = <<>> THEN <<>>
    ELSE IF a[Len(a)] = 0 THEN BigNorm(SubSeq(a, 1, Len(a) - 1))
    ELSE a

RECURSIVE BigAddC(_, _, _)
BigAddC(a, b, carry) ==
    IF a = <<>> /\ b = <<>>
    THEN (IF carry = 0 THEN <<>> ELSE <<carry>>)
    ELSE LET x == IF a = <<>> THEN 0 ELSE Head(a)
             y == IF b = <<>> THEN 0 ELSE Head(b)
             s == x + y + carry
         IN  <<s % 100>> \o BigAddC(IF a = <<>> THEN <<>> ELSE Tail(a),
                                    IF b = <<>> THEN <<>> ELSE Tail(b),
                                    s \div 100)

\* a + b
BigAdd(a, b) == BigAddC(a, b, 0)

RECURSIVE BigLessAt(_, _, _)
\* a < b for a and b of one length, decided by the digits i, i-1, .. 1
BigLessAt(a, b, i) ==
    IF i = 0 THEN FALSE
    ELSE IF a[i] # b[i] THEN a[i] < b[i]
    ELSE BigLessAt(a, b, i - 1)

\* a < b
BigLess(a, b) ==
    IF Len(a) # Len(b) THEN Len(a) < Len(b) ELSE BigLessAt(a, b, Len(a))

RECURSIVE BigSubB(_, _, _)
BigSubB(a, b, borrow) ==
    IF a = <<>> THEN <<>>
    ELSE LET y == IF b = <<>> THEN 0 ELSE Head(b)
             s == Head(a) - y - borrow
         IN  <<s % 100>> \o BigSubB(Tail(a),
                                    IF b = <<>> THEN <<>> ELSE Tail(b),
                                    IF s < 0 THEN 1 ELSE 0)

\* a - b where a >= b (try_from subtracts nothing larger from a value once
\* j.day < 0 is excluded, but for the year: see SignedSub)
BigSub(a, b) ==
    IF BigLess(a, b) THEN [underflow |-> <<a, b>>] ELSE BigNorm(BigSubB(a, b, 0))

RECURSIVE BigMulC(_, _, _)
BigMulC(a, k, carry) ==
    IF a = <<>> THEN ToBig(carry)
    ELSE LET s == Head(a) * k + carry
         IN  <<s % 100>> \o BigMulC(Tail(a), k, s \div 100)

\* a * k for a small natural k
BigMul(a, k) == BigNorm(BigMulC(a, k, 0))

RECURSIVE BigDivRem(_, _)
BigDivRem(a, k) ==
    IF a = <<>> THEN [q |-> <<>>, r |-> 0]
    ELSE LET hi == BigDivRem(Tail(a), k)
             cur == hi.r * 100 + Head(a)
         IN  [q |-> <<cur \div k>> \o hi.q, r |-> cur % k]

\* the floor of a / k for a small natural k > 0
BigDiv(a, k) == BigNorm(BigDivRem(a, k).q)

\* a * 100 and the floor of a / 100: a shift by one digit
BigTimes100(a) == IF a = <<>> THEN <<>> ELSE <<0>> \o a
BigWhole(a) == IF a = <<>> THEN <<>> ELSE Tail(a)

\* Decimal::floor of a Big count of hundredths
BigFloor(a) == BigTimes100(BigWhole(a))

\* (num/den).floor() as a count of hundredths, as floor_quot
big_floor_quot(num, den) == BigTimes100(BigDiv(num, den))

\* (dec!(k/scale) * w).floor() for a whole w given in hundredths, as floor_mul
big_floor_mul(k, scale, w) == BigTimes100(BigDiv(BigMul(BigWhole(w), k), scale))

-----------------------------------------------------------------------------
(* Results: Result<T, E>, Option<T>, and a panic of the called function.   *)

Ok(v) == [tag |-> "Ok", val |-> v]
Err(e) == [tag |-> "Err", val |-> e]
Some(v) == [tag |-> "Some", val |-> v]
None == [tag |-> "None", val |-> "None"]

\* How a call ends: it returns v, or it panics
Return(v) == [tag |-> "return", val |-> v]
Panic(why) == [tag |-> "panic", val |-> why]

\* f(..).unwrap() as the last step of a function: the function returns the
\* value, or panics
unwrap(r) ==
    IF r.tag = "Ok" \/ r.tag = "Some" THEN Return(r.val)
    ELSE Panic("called unwrap() on " \o r.tag)

-----------------------------------------------------------------------------
(* A JulianDay holds any Decimal.  day is its count of hundredths, and for  *)
(* a value beyond the integers of the model checker x100 shifts it: the    *)
(* value is day * 100^x100 hundredths (x100 = 0 for every JulianDay that   *)
(* JulianDay_from returns).                                                *)

JulianDay_wide(day, x100) == [day |-> day, x100 |-> x100]

RECURSIVE BigShift(_, _)
\* a * 100^n
BigShift(a, n) == IF n = 0 \/ a = <<>> THEN a ELSE BigShift(<<0>> \o a, n - 1)

\* the Big of the non-negative Decimal of a JulianDay
Wide(j) == BigShift(ToBig(j.day), j.x100)

\* x < Decimal::ZERO
IsNegative(x) == x < 0

\* i32::MAX, in hundredths
I32Max == BigTimes100(ToBig(2147483647))

\* c - k as a signed whole Decimal [neg, mag], c and k Big
SignedSub(c, k) ==
    IF BigLess(c, k) THEN [neg |-> TRUE, mag |-> BigSub(k, c)]
    ELSE [neg |-> FALSE, mag |-> BigSub(c, k)]

\* Decimal::to_i32 of a signed whole Decimal: None when out of range (a
\* negative value is at least -4716 here)
to_i32(x) ==
    IF x.neg THEN Some(-(FromBig(x.mag) \div 100))
    ELSE IF BigLess(I32Max, x.mag) THEN None
    ELSE Some(FromBig(BigWhole(x.mag)))

\* Decimal::to_u8 of a Decimal given in hundredths: None when it is negative
\* or above 255, else the value truncated (a zero is taken to carry no sign)
to_u8(x) ==
    IF x < 0 THEN None
    ELSE IF trunc(x) \div 100 > 255 THEN None
    ELSE Some(trunc(x) \div 100)

\* try_from: let month = if e < 14 { e - 1 } else { e - 13 }
try_from_month(e) ==
    IF BigLess(e, ToBig(1400)) THEN BigSub(e, ToBig(100))
    ELSE BigSub(e, ToBig(1300))

\* a slip in try_from_year: the year taken as c - 4716 for every month
Mut_try_from_year(c, month) == SignedSub(c, ToBig(471600))

\* try_from: let year = if month > 2 { c - 4716 } else { c - 4715 }
try_from_year(c, month) ==
    IF BigLess(ToBig(200), month) THEN SignedSub(c, ToBig(471600))
    ELSE SignedSub(c, ToBig(471500))

\* impl TryFrom<JulianDay> for CalendarDate
CalendarDate_try_from(j) ==
    IF IsNegative(j.day) THEN Return(Err("InvalidJulianDay"))
    ELSE
    LET jd0 == BigAdd(Wide(j), ToBig(50))
        z == BigFloor(jd0)
        f == BigSub(jd0, z)
        a == IF BigLess(z, ToBig(229916100)) THEN z
             ELSE LET alpha == big_floor_quot(BigSub(z, ToBig(186721625)), 3652425)
                  IN  BigSub(BigAdd(BigAdd(z, ToBig(100)), alpha),
                             big_floor_quot(alpha, 400))
        b == BigAdd(a, ToBig(152400))
        c == big_floor_quot(BigSub(b, ToBig(12210)), 36525)
        d == big_floor_mul(36525, 100, c)
        e == big_floor_quot(BigTimes100(BigSub(b, d)), 306001)
        day == BigAdd(BigSub(BigSub(b, d), big_floor_mul(306001, 10000, e)), f)
        month == try_from_month(e)
        year == try_from_year(c, month)
        y32 == to_i32(year)
        m8 == to_u8(trunc(FromBig(month)))
    IN  IF y32.tag = "None" THEN unwrap(y32)
        ELSE IF m8.tag = "None" THEN unwrap(m8)
        ELSE Return(Ok(CalendarDate_new(y32.val, m8.val, FromBig(day))))

-----------------------------------------------------------------------------
(* WeekDay *)

WeekDays == <<"Sunday", "Monday", "Tuesday", "Wednesday", "Thursday",
              "Friday", "Saturday">>

\* impl TryFrom<Decimal> for WeekDay
WeekDay_try_from(d) ==
    LET day == to_u8(d)
    IN  IF day.tag = "None" THEN Err("NonIntegerDecimal")
        ELSE IF day.val \in 0..6 THEN Ok(WeekDays[day.val + 1])
        ELSE Err("InvalidDayNumber")

\* CalendarDate::day_of_the_week
day_of_the_week(self) ==
    LET date_0hr == CalendarDate_new(self.y, self.m, round(self.d))
        j == JulianDay_from(date_0hr)
        day == rem(j.day + 150, 700)
    IN  unwrap(WeekDay_try_from(day))

-----------------------------------------------------------------------------
(* The civil calendar, for stating what the program is to compute: the     *)
(* Julian calendar up to 1582-10-04, the Gregorian calendar from           *)
(* 1582-10-15 on.  Nothing below is used by the model of the program.      *)

JulianLeap(y) == y % 4 = 0
GregorianLeap(y) == y % 4 = 0 /\ (y % 100 # 0 \/ y % 400 = 0)
CivilLeap(y) == IF y < 1582 THEN JulianLeap(y) ELSE GregorianLeap(y)

DaysInMonth(y, m) ==
    IF m = 2 THEN (IF CivilLeap(y) THEN 29 ELSE 28)
    ELSE IF m \in {4, 6, 9, 11} THEN 30 ELSE 31

WholeDay(date) == date.d \div 100
Fraction(date) == date.d % 100

\* 1582-10-05 .. 1582-10-14, which no civil calendar has
InGap(date) == date.y = 1582 /\ date.m = 10 /\ WholeDay(date) \in 5..14

\* a real civil date
Valid(date) ==
    /\ date.m \in 1..12
    /\ WholeDay(date) \in 1..DaysInMonth(date.y, date.m)
    /\ ~InGap(date)

\* the next civil date, at the same time of day
NextDate(date) ==
    IF date.y = 1582 /\ date.m = 10 /\ WholeDay(date) = 4
    THEN CalendarDate_new(1582, 10, 1500 + Fraction(date))
    ELSE IF WholeDay(date) < DaysInMonth(date.y, date.m)
    THEN CalendarDate_new(date.y, date.m, date.d + 100)
    ELSE IF date.m < 12
    THEN CalendarDate_new(date.y, date.m + 1, 100 + Fraction(date))
    ELSE CalendarDate_new(date.y + 1, 1, 100 + Fraction(date))

-----------------------------------------------------------------------------
(* The values the caller constructs.                                       *)

\* the years of the dates: YearSpan + 1 years from each of these (the years
\* of the tests of the source first, then years at both ends of the Julian
\* Day count, around the reform and around century years of both calendars)
AnchorYears == <<1954, 1976, 1985, 1908, 332, 1580, 1997, 1898, 1498, 1598,
                 1698, 98, -2, -124, -1001, -4715, -4719>>
YearSpan == 3

\* the times of day, in hundredths of a day
Fractions == {0, 25, 50, 81}

\* the dates are every real civil date of these years and the days of the
\* gap of 1582, at each of Fractions
Constructed(date) == Valid(date) \/ InGap(date)

\* the dates of the pairs given to difference and days_between
PairYears == {-4714, 1582, 1910, 1986}
PairMonths == {1, 2, 4, 10, 12}
PairDays == {1, 4, 9, 15, 20, 28}
PairFractions == {0, 50}
PairDates ==
    {date \in {CalendarDate_new(y, m, 100 * n + f) :
                  y \in PairYears, m \in PairMonths, n \in PairDays,
                  f \in PairFractions} : Constructed(date)}

\* the Julian Days given to try_from directly: JdWindow days on each side of
\* these, at these times of day, and some beyond the range of an i32 year
JdAnchors == {0, 1842713, 2299160, 2436116}
JdWindow == 2
JdFractions == {0, 31, 50, 99}
WideDays == {JulianDay_wide(7840, 5), JulianDay_wide(7850, 5), JulianDay_wide(1, 7)}
JulianDays ==
    {JulianDay_new(100 * (a + k) + f) :
        a \in JdAnchors, k \in (-JdWindow)..JdWindow, f \in JdFractions}
    \cup WideDays

-----------------------------------------------------------------------------
(* The caller: it constructs a date, a pair of dates or a Julian Day, and  *)
(* calls one function on it (or converts a date to its Julian Day and that *)
(* back).                                                                  *)

Init ==
    /\ pc = "new"
    /\ ret = NoReturn
    /\ \/ /\ \E i \in 1..Len(AnchorYears), k \in 0..YearSpan,
                m \in 1..12, n \in 1..31, f \in Fractions :
                cd = CalendarDate_new(AnchorYears[i] + k, m, 100 * n + f)
          /\ Constructed(cd)
          /\ rhs = NoDate /\ jd = NoJulianDay
       \/ cd \in PairDates /\ rhs \in PairDates /\ jd = NoJulianDay
       \/ cd = NoDate /\ rhs = NoDate /\ jd \in JulianDays

OneDate == pc = "new" /\ cd # NoDate /\ rhs = NoDate
TwoDates == pc = "new" /\ cd # NoDate /\ rhs # NoDate

\* JulianDay::from(cd)
From ==
    /\ OneDate
    /\ jd' = JulianDay_from(cd)
    /\ ret' = Return(jd')
    /\ pc' = "from"
    /\ UNCHANGED <<cd, rhs>>

\* CalendarDate::try_from(jd)
TryFrom ==
    /\ pc \in {"new", "from"}
    /\ jd # NoJulianDay
    /\ ret' = CalendarDate_try_from(jd)
    /\ pc' = "try_from"
    /\ UNCHANGED <<cd, rhs, jd>>

\* cd.get_calendar()
GetCalendar ==
    /\ OneDate
    /\ ret' = Return(get_calendar(cd))
    /\ pc' = "get_calendar"
    /\ UNCHANGED <<cd, rhs, jd>>

\* cd.leap_year()
LeapYear ==
    /\ OneDate
    /\ ret' = Return(leap_year(cd))
    /\ pc' = "leap_year"
    /\ UNCHANGED <<cd, rhs, jd>>

\* cd.day_of_the_week()
DayOfTheWeek ==
    /\ OneDate
    /\ ret' = day_of_the_week(cd)
    /\ pc' = "day_of_the_week"
    /\ UNCHANGED <<cd, rhs, jd>>

\* cd.day_of_the_year()
DayOfTheYear ==
    /\ OneDate
    /\ ret' = Return(day_of_the_year(cd))
    /\ pc' = "day_of_the_year"
    /\ UNCHANGED <<cd, rhs, jd>>

\* CalendarDate::difference(&cd, &rhs)
Difference ==
    /\ TwoDates
    /\ ret' = Return(difference(cd, rhs))
    /\ pc' = "difference"
    /\ UNCHANGED <<cd, rhs, jd>>

\* CalendarDate::days_between(&cd, &rhs)
DaysBetween ==
    /\ TwoDates
    /\ ret' = Return(days_between(cd, rhs))
    /\ pc' = "days_between"
    /\ UNCHANGED <<cd, rhs, jd>>

Next ==
    \/ From
    \/ TryFrom
    \/ GetCalendar
    \/ LeapYear
    \/ DayOfTheWeek
    \/ DayOfTheYear
    \/ Difference
    \/ DaysBetween

Spec == Init /\ [][Next]_vars

-----------------------------------------------------------------------------
(* Reference values of the civil calendar, for the properties below.       *)

RECURSIVE DaysBeforeMonth(_, _)
\* the days of the months 1 .. m-1 of year y
DaysBeforeMonth(y, m) ==
    IF m = 1 THEN 0 ELSE DaysBeforeMonth(y, m - 1) + DaysInMonth(y, m - 1)

\* the 1-based ordinal of a date within its year (not for 1582)
Ordinal(date) == DaysBeforeMonth(date.y, date.m) + WholeDay(date)

\* the Gregorian leap years among 1 .. n
GregorianLeapsThrough(n) == n \div 4 - n \div 100 + n \div 400

\* the civil days from -4712-01-01 to January 1 of year y >= -4712: 365 a
\* year, a leap day for each Julian leap year -4712, -4708, .. up to 1582
\* and for each Gregorian leap year after it, less the 10 days dropped in
\* October 1582
DaysBeforeYear(y) ==
    IF y <= 1582
    THEN 365 * (y + 4712) + (y + 4715) \div 4
    ELSE 365 * (y + 4712) + (1582 + 4715) \div 4 - 10
         + GregorianLeapsThrough(y - 1) - GregorianLeapsThrough(1582)

OnOrAfterReform(date) ==
    \/ date.y > 1582
    \/ date.y = 1582 /\ date.m > 10
    \/ date.y = 1582 /\ date.m = 10 /\ WholeDay(date) >= 15

\* the civil days from -4712-01-01 to a date of year >= -4712
CivilDayNumber(date) ==
    DaysBeforeYear(date.y) + Ordinal(date) - 1
    - (IF date.y = 1582 /\ OnOrAfterReform(date) THEN 10 ELSE 0)

\* the weekday after w
NextWeekDay(w) ==
    LET i == CHOOSE k \in 1..7 : WeekDays[k] = w
    IN  WeekDays[(i % 7) + 1]

-----------------------------------------------------------------------------
(* Properties.                                                             *)

\* C1: a valid date whose Julian Day is >= 0 converted to its Julian Day and
\* back is the same date: same year, same month, same fractional day
C1_RoundTrip ==
    (pc = "try_from" /\ cd # NoDate /\ Valid(cd) /\ jd.day >= 0)
        => ret = Return(Ok(cd))

\* the last Julian date, at 0.81 of the day, has come back from its Julian Day
C1_Witness ==
    /\ pc = "try_from"
    /\ cd = CalendarDate_new(1582, 10, 481)
    /\ jd = JulianDay_new(229916031)
    /\ ret = Return(Ok(cd))

\* C2: the Julian Day of a valid date from -4712-01-01 on is the count of
\* days since noon of -4712-01-01: 0 for -4712-01-01.5, the count of civil
\* days in between for every date, and 1 more for the next civil date
C2_DayCount ==
    (pc = "from" /\ Valid(cd) /\ cd.y >= -4712)
        => /\ jd.day = 100 * CivilDayNumber(cd) + Fraction(cd) - 50
           /\ JulianDay_from(NextDate(cd)).day = jd.day + 100
           /\ (cd = CalendarDate_new(-4712, 1, 150) => jd.day = 0)

\* the Julian Day of 1582-10-04 has been computed, and the next civil date,
\* 1582-10-15, is one day later
C2_Witness ==
    /\ pc = "from"
    /\ cd = CalendarDate_new(1582, 10, 400)
    /\ NextDate(cd) = CalendarDate_new(1582, 10, 1500)
    /\ jd.day = 229915950

\* C3: get_calendar is Julian exactly for the dates before 1582-10-15.0, in
\* the order of (year, month, day), and Gregorian for every other date
C3_Calendar ==
    pc = "get_calendar"
        => LET before == \/ cd.y < 1582
                         \/ cd.y = 1582 /\ cd.m < 10
                         \/ cd.y = 1582 /\ cd.m = 10 /\ cd.d < 1500
           IN  ret = Return(IF before THEN "Julian" ELSE "Gregorian")

\* 1582-10-14.81, a day of the gap, has been classified Julian
C3_Witness ==
    /\ pc = "get_calendar"
    /\ cd = CalendarDate_new(1582, 10, 1481)
    /\ ret = Return("Julian")

\* C4: try_from returns Err(InvalidJulianDay) exactly when jd.day < 0, and
\* for every jd.day >= 0 returns Ok with a month in 1..12, without a panic
C4_TryFromTotal ==
    pc = "try_from"
        => IF jd.day < 0
           THEN ret = Return(Err("InvalidJulianDay"))
           ELSE /\ ret.tag = "return"
                /\ ret.val.tag = "Ok"
                /\ ret.val.val.m \in 1..12

\* C5: leap_year is the Julian answer (every 4th year) for a date before
\* 1582-10-15 and the Gregorian answer for a date from then on
C5_LeapYear ==
    (pc = "leap_year" /\ Valid(cd))
        => ret = Return(IF OnOrAfterReform(cd) THEN GregorianLeap(cd.y)
                        ELSE JulianLeap(cd.y))

\* C6: day_of_the_year of a valid date of a year other than 1582 is its
\* 1-based ordinal: 1 for January 1, one more for the next date of the year,
\* at most 365, or 366 in a year that has a February 29
C6_DayOfTheYear ==
    (pc = "day_of_the_year" /\ Valid(cd) /\ cd.y # 1582)
        => /\ ret = Return(Ordinal(cd))
           /\ ret.val \in 1..(IF CivilLeap(cd.y) THEN 366 ELSE 365)
           /\ NextDate(cd).y = cd.y
                => day_of_the_year(NextDate(cd)) = ret.val + 1

\* C7: for a valid date with a whole-number day, day_of_the_week is the
\* weekday of ordinal (JulianDay + 1.5) mod 7, and the next civil date has
\* the next weekday
C7_WeekContinuous ==
    (pc = "day_of_the_week" /\ Valid(cd) /\ Fraction(cd) = 0)
        => /\ ret.tag = "return"
           /\ ret.val = WeekDays[(((JulianDay_from(cd).day + 150) \div 100) % 7) + 1]
           /\ day_of_the_week(NextDate(cd)) = Return(NextWeekDay(ret.val))

\* C8: day_of_the_week of a valid date, of any year and any time of day,
\* returns a weekday: it does not panic
C8_WeekDayNeverFails ==
    (pc = "day_of_the_week" /\ Valid(cd))
        => /\ ret.tag = "return"
           /\ ret.val \in {WeekDays[k] : k \in 1..7}

\* C9: difference(a, b) is JulianDay(a) - JulianDay(b) and is
\* -difference(b, a); days_between(a, b) is its absolute value, >= 0, equal
\* to days_between(b, a), and 0 for valid dates only when a = b
C9_Difference ==
    /\ pc = "difference"
        => /\ ret.val = JulianDay_from(cd).day - JulianDay_from(rhs).day
           /\ ret.val = -difference(rhs, cd)
    /\ pc = "days_between"
        => /\ ret.val >= 0
           /\ ret.val = days_between(rhs, cd)
           /\ ret.val \in {difference(cd, rhs), -difference(cd, rhs)}
           /\ (Valid(cd) /\ Valid(rhs) /\ ret.val = 0) => cd = rhs

\* days_between of 1910-04-20 and 1986-02-09, the earlier date first, has
\* returned 27689
C9_Witness ==
    /\ pc = "days_between"
    /\ cd = CalendarDate_new(1910, 4, 2000)
    /\ rhs = CalendarDate_new(1986, 2, 900)
    /\ difference(cd, rhs) = -2768900
    /\ ret = Return(2768900)

\* C10: the weekday of a valid date is that of its whole day, whatever the
\* time of day
C10_WeekDayOfWholeDay ==
    (pc = "day_of_the_week" /\ Valid(cd))
        => ret = day_of_the_week(CalendarDate_new(cd.y, cd.m, floor(cd.d)))

=============================================================================
